---- MODULE Spec2Model ----
(***************************************************************************)
(* Model of backend/app.py: the KiteManager session (credentials, ticker,  *)
(* subscription set, tick cache), the watchlist store, the viewer hub and  *)
(* the periodic broadcast loop.                                            *)
(*                                                                         *)
(* Every handler is a set-valued operator over a snapshot record `s` of    *)
(* the program state: it returns every state the handler can leave behind, *)
(* one per outcome of the broker calls it makes.  An action picks one of   *)
(* them and installs it in the variables.                                  *)
(***************************************************************************)
EXTENDS Integers, Sequences, FiniteSets, TLC

\* ---------------------------------------------------------------- bounds
MaxSymbols == 1      \* longest symbol list kept in one watchlist
MaxViewers == 1      \* viewer streams that may be connected at once
MaxTimers  == 1      \* delayed update_subscriptions timers pending at once
MaxHubViewers == 2   \* viewer streams when a broadcast is followed send by send
MaxTime    == 26     \* latest reading of the clock, in hours
MaxFetchedAt == 1    \* latest fetched_at of a cached range, in hours
MaxBatch   == 2      \* most ticks in one on_ticks call
MaxTradeTime == 2    \* latest last_trade_time of a tick

\* ------------------------------------------------------------ the universe
WatchlistIds == {"default", "w1"}
Exchanges    == {"NSE", "BSE"}
\* (exchange, symbol) pairs a client may name; NSE:ZZZ is in no directory
Entries      == {<<"NSE", "FOO">>, <<"BSE", "BAR">>, <<"NSE", "ZZZ">>}
Tokens       == {1, 2}
Viewers      == 1..MaxViewers
HubViewers   == 1..MaxHubViewers
\* Threads other than the event loop that run KiteManager code: the ticker's
\* reactor thread (its callbacks) and the thread of a threading.Timer.
Threads      == {"reactor", "timer"}
None         == 0

\* The broker's instrument directory: what kite.instruments(exchange) lists.
Directory(entry) ==
    CASE entry = <<"NSE", "FOO">> -> 1
      [] entry = <<"BSE", "BAR">> -> 2
      [] OTHER -> None

VARIABLES
    watchlists,          \* watchlists: id -> its "symbols" list
    kite,                \* self.kite is not None
    access_token,        \* self.access_token is not None
    ticker,              \* self.ticker is not None
    is_connected,        \* self.is_connected
    subscribed_tokens,   \* self.subscribed_tokens
    latest_ticks,        \* self.latest_ticks: token -> "none" | "feed" | "quote"
    instruments_cache,   \* exchanges whose "_loaded_" key is in instruments_cache
    week_52_cache,       \* tokens holding a week_52_cache entry younger than a day
    conn,                \* socket of the current ticker object: "none",
                         \* "connecting", "open", "dropped", "reconnecting"
                         \* or "reopened" (open again after a drop)
    late,                \* a ticker closed while open still has events to deliver
    timers,              \* threading.Timer objects still to fire
    pending,             \* per thread: the tokens_to_subscribe of a pass under way
    active_connections,  \* manager.active_connections
    handlers,            \* per viewer: where its websocket_endpoint call stands
    first,               \* per viewer: the type of the first message sent to it
    bc,                  \* the manager.broadcast call under way, send by send
    calls,               \* ticker calls the last handler issued, in order
    pass,                \* the reconcile pass it ran, if it ran one
    results,             \* what each get_stock_data call it made returned
    authfail,            \* its broker calls that reported invalid credentials
    pushed,              \* whether it gave a tick_update batch to manager.broadcast
    calc                 \* a KiteManager method followed in detail: the last
                         \* call with its arguments and result, or latest_ticks
                         \* with the ticks themselves

vars == <<watchlists, kite, access_token, ticker, is_connected, subscribed_tokens,
          latest_ticks, instruments_cache, week_52_cache, conn, late, timers,
          pending, active_connections, handlers, first, bc, calls, pass, results,
          authfail, pushed, calc>>

\* ------------------------------------------------------------- snapshots
\* The program state a handler starts from, with nothing issued yet.
Cur ==
    [ watchlists |-> watchlists, kite |-> kite, access_token |-> access_token,
      ticker |-> ticker, is_connected |-> is_connected,
      subscribed_tokens |-> subscribed_tokens, latest_ticks |-> latest_ticks,
      instruments_cache |-> instruments_cache, week_52_cache |-> week_52_cache,
      conn |-> conn, late |-> late, timers |-> timers, pending |-> pending,
      active_connections |-> active_connections, handlers |-> handlers,
      first |-> first, bc |-> bc,
      calls |-> <<>>, pass |-> <<>>, results |-> <<>>, authfail |-> {},
      pushed |-> FALSE ]

\* The snapshot a handler leaves becomes the program state.
Install(s) ==
    /\ watchlists' = s.watchlists
    /\ kite' = s.kite
    /\ access_token' = s.access_token
    /\ ticker' = s.ticker
    /\ is_connected' = s.is_connected
    /\ subscribed_tokens' = s.subscribed_tokens
    /\ latest_ticks' = s.latest_ticks
    /\ instruments_cache' = s.instruments_cache
    /\ week_52_cache' = s.week_52_cache
    /\ conn' = s.conn
    /\ late' = s.late
    /\ timers' = s.timers
    /\ pending' = s.pending
    /\ active_connections' = s.active_connections
    /\ handlers' = s.handlers
    /\ first' = s.first
    /\ bc' = s.bc
    /\ calls' = s.calls
    /\ pass' = s.pass
    /\ results' = s.results
    /\ authfail' = s.authfail
    /\ pushed' = s.pushed

Commit(s) == Install(s) /\ calc' = calc

Issue(s, call) == [s EXCEPT !.calls = Append(@, call)]

NoTicks == [t \in Tokens |-> "none"]

NoCalc == [fn |-> "none"]

\* The program state apart from `calc`
program == <<watchlists, kite, access_token, ticker, is_connected,
             subscribed_tokens, latest_ticks, instruments_cache, week_52_cache,
             conn, late, timers, pending, active_connections, handlers, first,
             bc, calls, pass, results, authfail, pushed>>

\* ------------------------------------------------------------ KiteManager
is_authenticated(s) == s.kite /\ s.access_token

\* ticker.close() on an open socket: what is in flight is still delivered,
\* and then the socket's close event.
Open(c) == c \in {"open", "reopened"}

Draining(s) == s.late \/ Open(s.conn)

handle_close(s) ==
    IF s.ticker
    THEN [Issue(s, [call |-> "close", ids |-> {}]) EXCEPT !.late = Draining(s)]
    ELSE s

\* A logout that keeps the last ticks.
logoutKeepingTicks(s) ==
    [handle_close(s) EXCEPT
        !.ticker = FALSE, !.conn = "none",
        !.access_token = FALSE, !.kite = FALSE,
        !.is_connected = FALSE, !.subscribed_tokens = {},
        !.instruments_cache = {}, !.week_52_cache = {}]

logout(s) ==
    [handle_close(s) EXCEPT
        !.ticker = FALSE, !.conn = "none",
        !.access_token = FALSE, !.kite = FALSE,
        !.is_connected = FALSE, !.subscribed_tokens = {},
        !.latest_ticks = NoTicks, !.instruments_cache = {},
        !.week_52_cache = {}]

\* KiteTicker(...) and connect(threaded=True); either may raise.
initialize_ticker(s) ==
    IF ~s.access_token THEN {s}
    ELSE LET c == Issue(handle_close(s), [call |-> "connect", ids |-> {}])
         IN  { [c EXCEPT !.ticker = TRUE, !.conn = "connecting"],
               [c EXCEPT !.ticker = FALSE, !.conn = "none"] }

\* kite.profile() accepts the token or raises.
initialize_kite(s) ==
    IF s.access_token
    THEN initialize_ticker([s EXCEPT !.kite = TRUE])
         \cup { [s EXCEPT !.kite = FALSE, !.access_token = FALSE] }
    ELSE {s}

load_instruments(s, exchange) ==
    IF ~s.kite THEN { [s |-> s, raised |-> TRUE] }
    ELSE IF exchange \in s.instruments_cache THEN { [s |-> s, raised |-> FALSE] }
    ELSE { [s |-> [s EXCEPT !.instruments_cache = @ \cup {exchange}],
            raised |-> FALSE],
           [s |-> s, raised |-> TRUE],
           [s |-> [s EXCEPT !.authfail = @ \cup {"instruments"}], raised |-> TRUE] }

get_instrument_token(s, entry) ==
    { [s |-> r.s, raised |-> r.raised,
       token |-> IF r.raised THEN None ELSE Directory(entry)]
        : r \in load_instruments(s, entry[1]) }

\* The "symbols" lists of watchlists.values(), in the dictionary's order.
AllItems(wl) ==
    (IF "default" \in DOMAIN wl THEN wl["default"] ELSE <<>>)
    \o (IF "w1" \in DOMAIN wl THEN wl["w1"] ELSE <<>>)

\* tokens_to_subscribe: the tokens of the items that resolve; an item whose
\* lookup raises, or that has no token, is skipped.
RECURSIVE CollectTokens(_, _, _)
CollectTokens(s, items, acc) ==
    IF items = <<>> THEN { [s |-> s, tokens |-> acc] }
    ELSE UNION { CollectTokens(r.s, Tail(items),
                               IF ~r.raised /\ r.token # None
                               THEN acc \cup {r.token} ELSE acc)
                   : r \in get_instrument_token(s, Head(items)) }

TokensToUnsubscribe(current, desired) == current \ desired

TokensToAdd(current, desired) == desired \ current

\* subscribed_tokens after ticker.subscribe(tokens_to_add) returned or raised
\* A bookkeeping that records the tokens of a subscribe call before knowing
\* whether the call returned.
AfterSubscribeEager(current, to_add, ok) == current \cup to_add

AfterSubscribe(current, to_add, ok) == IF ok THEN current \cup to_add ELSE current

\* subscribed_tokens after ticker.unsubscribe(tokens_to_unsubscribe)
AfterUnsubscribe(current, to_remove, ok) == current

\* What one pass did: who ran it, subscribed_tokens when it was entered and
\* when it compared, tokens_to_subscribe, the two differences it computed and
\* whether each call returned, and whether the pass raised to its caller.
PassRecord(s, trigger, at_start, desired, to_remove, to_add, uok, sok) ==
    [trigger |-> trigger, at_start |-> at_start, desired |-> desired,
     before |-> s.subscribed_tokens, unsub |-> to_remove, sub |-> to_add,
     unsubOk |-> uok, subOk |-> sok, raised |-> FALSE]

\* ticker.unsubscribe(list(tokens_to_unsubscribe)) in its try block; on a
\* ticker that is None the call raises before anything is sent.
TryUnsubscribe(s, to_remove, ok) ==
    IF ~s.ticker THEN s
    ELSE [Issue(s, [call |-> "unsubscribe", ids |-> to_remove])
             EXCEPT !.subscribed_tokens = AfterUnsubscribe(@, to_remove, ok)]

\* ticker.subscribe(list(tokens_to_add)) and the update of subscribed_tokens
TrySubscribe(s, to_add, ok) ==
    IF ~s.ticker THEN s
    ELSE [Issue(s, [call |-> "subscribe", ids |-> to_add])
             EXCEPT !.subscribed_tokens = AfterSubscribe(@, to_add, ok)]

Outcomes(s, ids) ==
    IF ids = {} THEN {TRUE} ELSE IF s.ticker THEN BOOLEAN ELSE {FALSE}

\* The second half of _resubscribe_all, from "if tokens_to_subscribe:" on:
\* unsubscribe, then subscribe; each call may raise, and the pass goes on.
Reconcile(s, trigger, at_start, desired) ==
    IF desired = {}
    THEN { [s EXCEPT !.pass = Append(@, PassRecord(s, trigger, at_start, desired,
                                                   {}, {}, TRUE, TRUE))] }
    ELSE LET to_remove == TokensToUnsubscribe(s.subscribed_tokens, desired)
         IN  UNION {
               LET s1 == IF to_remove = {} THEN s
                         ELSE TryUnsubscribe(s, to_remove, uok)
                   to_add == TokensToAdd(s1.subscribed_tokens, desired)
               IN  { LET s2 == IF to_add = {} THEN s1
                               ELSE TrySubscribe(s1, to_add, sok)
                     IN  [s2 EXCEPT !.pass = Append(@,
                             PassRecord(s, trigger, at_start, desired,
                                        to_remove, to_add, uok, sok))]
                     : sok \in Outcomes(s1, to_add) }
               : uok \in Outcomes(s, to_remove) }

\* _resubscribe_all, run by the event loop: no other handler of the loop
\* runs before it returns.
resubscribe_all(s, trigger) ==
    IF ~s.ticker \/ ~s.is_connected THEN {s}
    ELSE UNION { Reconcile(r.s, trigger, s.subscribed_tokens, r.tokens)
                   : r \in CollectTokens(s, AllItems(s.watchlists), {}) }

Idle == [busy |-> FALSE, at_start |-> {}, desired |-> {}]

\* _resubscribe_all, run by another thread: the event loop may run between
\* its collecting tokens_to_subscribe and its comparing them with
\* subscribed_tokens.
resubscribe_collect(s, th) ==
    IF ~s.ticker \/ ~s.is_connected THEN {s}
    ELSE { [r.s EXCEPT !.pending[th] =
                [busy |-> TRUE, at_start |-> s.subscribed_tokens,
                 desired |-> r.tokens]]
             : r \in CollectTokens(s, AllItems(s.watchlists), {}) }

resubscribe_apply(s, th) ==
    Reconcile([s EXCEPT !.pending[th] = Idle], th, s.pending[th].at_start,
              s.pending[th].desired)

\* The socket after ticker.connect(threaded=True) on an existing ticker.
SocketAfterConnect(c) ==
    CASE c \in {"dropped", "reconnecting"} -> "reconnecting"
      [] OTHER -> "connecting"

TryConnect(s) ==
    LET c == Issue(s, [call |-> "connect", ids |-> {}])
    IN  { [c EXCEPT !.conn = SocketAfterConnect(@)], c }

\* update_subscriptions on the event loop
update_subscriptions(s, trigger) ==
    IF s.ticker /\ s.is_connected THEN resubscribe_all(s, trigger)
    ELSE IF s.ticker /\ ~s.is_connected THEN TryConnect(s)
    ELSE {s}

\* update_subscriptions on a Timer's thread
update_subscriptions_thread(s, th) ==
    IF s.ticker /\ s.is_connected THEN resubscribe_collect(s, th)
    ELSE IF s.ticker /\ ~s.is_connected THEN TryConnect(s)
    ELSE {s}

set_access_token(s) ==
    { [r EXCEPT !.timers = @ + 1]
        : r \in initialize_kite([s EXCEPT !.access_token = TRUE]) }

handle_auth_error(s, source) ==
    logout([s EXCEPT !.authfail = @ \cup {source}])

\* kite.historical_data returns bars, returns none or raises something else,
\* or raises the invalid-credential error.
fetch_52_week_data(s, token) ==
    IF token \in s.week_52_cache THEN { [s |-> s, raised |-> FALSE, range |-> TRUE] }
    ELSE IF ~s.kite THEN { [s |-> s, raised |-> FALSE, range |-> FALSE] }
    ELSE { [s |-> [s EXCEPT !.week_52_cache = @ \cup {token}],
            raised |-> FALSE, range |-> TRUE],
           [s |-> s, raised |-> FALSE, range |-> FALSE],
           [s |-> handle_auth_error(s, "historical"),
            raised |-> TRUE, range |-> FALSE] }

Result(entry, ret, tick, range, detected) ==
    [entry |-> entry, ret |-> ret, tick |-> tick, range |-> range,
     detected |-> detected]

Return(s, r) == [s EXCEPT !.results = Append(@, r)]

\* The quote fallback of get_stock_data and its return.
QuoteAndFormat(s, entry, token, range) ==
    IF s.latest_ticks[token] # "none"
    THEN { Return(s, Result(entry, "record", s.latest_ticks[token], range, "none")) }
    ELSE { Return([s EXCEPT !.latest_ticks[token] = "quote"],
                  Result(entry, "record", "quote", range, "none")),
           Return(s, Result(entry, "record", "none", range, "none")),
           Return(handle_auth_error(s, "quote"),
                  Result(entry, "Not authenticated", "none", FALSE, "quote")) }

get_stock_data(s, entry) ==
    IF ~s.kite
    THEN { Return(s, Result(entry, "Not authenticated", "none", FALSE, "none")) }
    ELSE UNION {
           IF t.raised
           THEN { Return(t.s, Result(entry, "error", "none", FALSE, "none")) }
           ELSE IF t.token = None
           THEN { Return(t.s, Result(entry, "None", "none", FALSE, "none")) }
           ELSE UNION {
                  IF w.raised
                  THEN { Return(w.s, Result(entry, "Not authenticated", "none",
                                            FALSE, "historical")) }
                  ELSE QuoteAndFormat(w.s, entry, t.token, w.range)
                  : w \in fetch_52_week_data(t.s, t.token) }
           : t \in get_instrument_token(s, entry) }

\* ------------------------------------------------------ ConnectionManager
Members(seq) == {seq[i] : i \in 1..Len(seq)}

Without(seq, gone) == SelectSeq(seq, LAMBDA v : v \notin gone)

\* No broadcast under way.  While one is, `next` is the position of the list
\* iterator of `for connection in self.active_connections`, `disconnected`
\* the local list of that name, `start` the active set the call began with,
\* `sent` the viewers whose send returned, in order, and `joined`, `left`
\* the viewers other handlers registered and unregistered in the meantime.
NoBroadcast ==
    [busy |-> FALSE, next |-> 1, disconnected |-> <<>>, start |-> {},
     sent |-> <<>>, joined |-> {}, left |-> {}]

connect(s, v) ==
    [s EXCEPT !.active_connections = Append(@, v),
              !.bc.joined = IF s.bc.busy THEN @ \cup {v} ELSE @]

\* disconnect: the viewer's stream object is not used again.
disconnect(s, v) ==
    [s EXCEPT !.active_connections = Without(@, {v}), !.handlers[v] = "none",
              !.first[v] = "none",
              !.bc.left = IF s.bc.busy /\ v \in Members(s.active_connections)
                          THEN @ \cup {v} ELSE @]

\* websocket.send_json of a message of one type, when it returns
send_json(s, v, type) ==
    [s EXCEPT !.first[v] = IF @ = "none" THEN type ELSE @]

RECURSIVE SendAll(_, _, _)
SendAll(s, to, type) ==
    IF to = {} THEN s
    ELSE LET v == CHOOSE x \in to : TRUE
         IN  SendAll(send_json(s, v, type), to \ {v}, type)

\* Viewers a send may fail for: any, and certainly those whose stream the
\* server has closed.
FailingSets(s) ==
    { F \in SUBSET Members(s.active_connections)
        : \A v \in Members(s.active_connections) : s.handlers[v] = "ended" => v \in F }

RECURSIVE DisconnectAll(_, _)
DisconnectAll(s, gone) ==
    IF gone = {} THEN s
    ELSE LET v == CHOOSE x \in gone : TRUE
         IN  DisconnectAll(disconnect(s, v), gone \ {v})

\* manager.broadcast when no send suspends
broadcast(s) ==
    { DisconnectAll(SendAll(s, Members(s.active_connections) \ F, "tick_update"), F)
        : F \in FailingSets(s) }

\* ---------------------------------------------------------- broadcast_updates
RECURSIVE LookupEach(_, _)
\* get_stock_data for each item of a list, an exception of one skipped
LookupEach(s, items) ==
    IF items = <<>> THEN {s}
    ELSE UNION { LookupEach(r, Tail(items)) : r \in get_stock_data(s, Head(items)) }

RECURSIVE LookupAll(_, _)
\* the same over the set all_symbols, in whatever order the set iterates
LookupAll(s, symbols) ==
    IF symbols = {} THEN {s}
    ELSE UNION { UNION { LookupAll(r, symbols \ {e}) : r \in get_stock_data(s, e) }
                   : e \in symbols }

\* A batch that leaves out the records made without a tick.
RecordsWithTick(s) ==
    SelectSeq(s.results, LAMBDA r : r.ret = "record" /\ r.tick # "none")

\* `if data: updates.append(data)`
Records(s) == SelectSeq(s.results, LAMBDA r : r.ret = "record")

\* A guard that looks at the session only, not at the viewers.
CycleRunsUnwatched(s) == is_authenticated(s)

\* The guard of one cycle of broadcast_updates
CycleRuns(s) == s.active_connections # <<>> /\ is_authenticated(s)

\* The updates of one cycle; `due` says more than 10 s passed since the last
\* subscription check.
collect_updates(s, due) ==
    UNION { LookupAll(u, Members(AllItems(u.watchlists)))
              : u \in IF due THEN update_subscriptions(s, "periodic") ELSE {s} }

\* One cycle whose sends do not suspend
broadcast_updates(s, due) ==
    IF ~CycleRuns(s) THEN {s}
    ELSE UNION { IF Records(r) = <<>> THEN {r}
                 ELSE broadcast([r EXCEPT !.pushed = TRUE])
                   : r \in collect_updates(s, due) }

\* manager.broadcast send by send: entering the loop, one iteration of it,
\* and the pruning after it.
broadcast_begin(s) ==
    [s EXCEPT !.bc = [NoBroadcast EXCEPT
                         !.busy = TRUE,
                         !.start = Members(s.active_connections)]]

broadcast_send(s, ok) ==
    LET v == s.active_connections[s.bc.next]
        n == [s EXCEPT !.bc.next = @ + 1]
    IN  IF ok
        THEN [send_json(n, v, "tick_update") EXCEPT !.bc.sent = Append(@, v)]
        ELSE [n EXCEPT !.bc.disconnected = Append(@, v)]

\* A broadcast that forgets the viewers its sends failed for.
broadcast_end_unpruned(s) == [s EXCEPT !.bc = NoBroadcast]

broadcast_end(s) ==
    [DisconnectAll(s, Members(s.bc.disconnected)) EXCEPT !.bc = NoBroadcast]

\* One cycle up to its first send
broadcast_updates_begin(s, due) ==
    IF ~CycleRuns(s) THEN {s}
    ELSE { IF Records(r) = <<>> THEN r
           ELSE broadcast_begin([r EXCEPT !.pushed = TRUE])
             : r \in collect_updates(s, due) }

\* An endpoint that registers the viewer and leaves its snapshot for later.
websocket_endpoint_unsent(s, v) ==
    LET c == connect(s, v)
    IN  IF ~is_authenticated(c)
        THEN { [send_json(c, v, "error") EXCEPT !.handlers[v] = "ended"],
               disconnect(c, v) }
        ELSE UNION { { [r EXCEPT !.handlers[v] = "running"], disconnect(r, v) }
                       : r \in LookupEach(c, AllItems(c.watchlists)) }

\* websocket_endpoint up to its receive loop
websocket_endpoint(s, v) ==
    LET c == connect(s, v)
    IN  IF ~is_authenticated(c)
        THEN { [send_json(c, v, "error") EXCEPT !.handlers[v] = "ended"],
               disconnect(c, v) }
        ELSE UNION { { [send_json(r, v, "initial_data") EXCEPT
                           !.handlers[v] = "running"],
                       disconnect(r, v) }
                       : r \in LookupEach(c, AllItems(c.watchlists)) }

\* ------------------------------------------- the methods in detail: values
\* An optional value: None, or the value.
Absent == <<>>

Some(x) == <<x>>

\* timedelta(days=1), in hours
Day == 24

Times == 0..MaxTime

\* 52-week ranges, {"high": .., "low": ..}
NoRange == [high |-> Absent, low |-> Absent]

Ranges ==
    { [high |-> Some(150), low |-> Some(80)],
      [high |-> Some(40002), low |-> Some(40000)] }

\* week_52_cache entries for one token
CacheEntries ==
    { Some([high |-> r.high[1], low |-> r.low[1], fetched_at |-> t0])
        : r \in Ranges, t0 \in 0..MaxFetchedAt }

\* What kite.historical_data does: bars with this range, no bars, an error,
\* or the invalid-credential error.
BrokerAnswers ==
    { [outcome |-> "bars", range |-> r] : r \in Ranges }
        \cup { [outcome |-> o, range |-> NoRange] : o \in {"empty", "error", "auth"} }

\* A cache entry that stays fresh for the whole of its last hour too.
FreshThroughDay(entry, now) == now - entry.fetched_at <= Day

\* datetime.now() - cached['fetched_at'] < timedelta(days=1)
Fresh(entry, now) == now - entry.fetched_at < Day

\* fetch_52_week_data for one token: `cached` is its week_52_cache entry,
\* `now` the clock, `answer` what the broker does if asked.
fetch_52_week_range(cached, now, has_kite, answer) ==
    IF cached # Absent /\ Fresh(cached[1], now)
    THEN [range |-> [high |-> Some(cached[1].high), low |-> Some(cached[1].low)],
          called |-> FALSE, raised |-> FALSE, cached |-> cached]
    ELSE IF ~has_kite
    THEN [range |-> NoRange, called |-> FALSE, raised |-> FALSE, cached |-> cached]
    ELSE CASE answer.outcome = "bars"
                -> [range |-> answer.range, called |-> TRUE, raised |-> FALSE,
                    cached |-> Some([high |-> answer.range.high[1],
                                     low |-> answer.range.low[1],
                                     fetched_at |-> now])]
           [] answer.outcome = "auth"
                -> [range |-> NoRange, called |-> TRUE, raised |-> TRUE,
                    cached |-> Absent]
           [] OTHER
                -> [range |-> NoRange, called |-> TRUE, raised |-> FALSE,
                    cached |-> cached]

\* ------------------------------------------------- _format_stock_data
\* Prices and quantities are whole numbers; a percentage or a ratio rounded
\* to 2 decimals is kept as its number of hundredths.
LastPrices == {Absent, Some(0), Some(100), Some(39999), Some(40003)}

DayHighs == {Absent, Some(110)}

DayLows == {Absent, Some(0), Some(95)}

BuyQuantities == {Absent, Some(0), Some(500)}

SellQuantities == {Absent, Some(0), Some(250)}

\* The fields of a tick that _format_stock_data reads
TickValues ==
    [last_price : LastPrices, high : DayHighs, low : DayLows,
     buyers : BuyQuantities, sellers : SellQuantities]

\* The tick {} of an instrument nothing was received for
EmptyTick ==
    [last_price |-> Absent, high |-> Absent, low |-> Absent,
     buyers |-> Absent, sellers |-> Absent]

\* `if x`: neither None nor 0
Truthy(x) == x # Absent /\ x[1] # 0

\* n / d to the nearest whole number, a tie to the even one (d > 0)
RoundHalfEven(n, d) ==
    LET q == n \div d
        r == n % d
    IN  IF 2 * r < d THEN q
        ELSE IF 2 * r > d THEN q + 1
        ELSE IF q % 2 = 0 THEN q ELSE q + 1

\* round(n / d * 100, 2), in hundredths
Percent(n, d) == RoundHalfEven(n * 10000, d)

\* A distance from the 52-week low measured from the low downwards.
DflReversed(cmp, w52_low) ==
    IF Truthy(cmp) /\ cmp[1] > 0 /\ w52_low # Absent
    THEN Some(Percent(w52_low[1] - cmp[1], cmp[1]))
    ELSE Absent

Dfl(cmp, w52_low) ==
    IF Truthy(cmp) /\ cmp[1] > 0 /\ w52_low # Absent
    THEN Some(Percent(cmp[1] - w52_low[1], cmp[1]))
    ELSE Absent

Dfh(cmp, w52_high) ==
    IF Truthy(cmp) /\ cmp[1] > 0 /\ w52_high # Absent
    THEN Some(Percent(w52_high[1] - cmp[1], cmp[1]))
    ELSE Absent

Dfdh(cmp, day_high) ==
    IF Truthy(cmp) /\ cmp[1] > 0 /\ day_high # Absent
    THEN Some(Percent(day_high[1] - cmp[1], cmp[1]))
    ELSE Absent

\* A distance from the day low as a share of the price.
DfdlOfPrice(cmp, day_low) ==
    IF Truthy(day_low) /\ day_low[1] > 0 /\ Truthy(cmp)
    THEN Some(Percent(cmp[1] - day_low[1], cmp[1]))
    ELSE Absent

Dfdl(cmp, day_low) ==
    IF Truthy(day_low) /\ day_low[1] > 0 /\ Truthy(cmp)
    THEN Some(Percent(cmp[1] - day_low[1], day_low[1]))
    ELSE Absent

Bsr(buyers, sellers) ==
    IF Truthy(sellers) /\ sellers[1] > 0 /\ buyers # Absent
    THEN Some(RoundHalfEven(buyers[1] * 100, sellers[1]))
    ELSE Absent

format_stock_data(tick, week_52) ==
    [ cmp |-> tick.last_price,
      w52_high |-> week_52.high, w52_low |-> week_52.low,
      dfl |-> Dfl(tick.last_price, week_52.low),
      dfh |-> Dfh(tick.last_price, week_52.high),
      day_low |-> tick.low, day_high |-> tick.high,
      dfdl |-> Dfdl(tick.last_price, tick.low),
      dfdh |-> Dfdh(tick.last_price, tick.high),
      buyers |-> tick.buyers, sellers |-> tick.sellers,
      bsr |-> Bsr(tick.buyers, tick.sellers) ]

\* ------------------------------------------- latest_ticks, tick by tick
\* Ticks of the feed: instrument_token (0: none), last_price, last_trade_time
FeedTicks ==
    [instrument_token : Tokens \cup {None}, last_price : {Some(0), Some(100)},
     last_trade_time : 1..MaxTradeTime]

\* The tick get_stock_data builds from a quote
QuoteTick ==
    [instrument_token |-> None, last_price |-> Some(101), last_trade_time |-> 0]

RECURSIVE on_ticks(_, _)
\* _on_ticks: what latest_ticks holds after a batch
on_ticks(cache, ticks) ==
    IF ticks = <<>> THEN cache
    ELSE LET tick == Head(ticks)
             token == tick.instrument_token
         IN  on_ticks(IF token # None THEN [cache EXCEPT ![token] = Some(tick)]
                      ELSE cache,
                      Tail(ticks))

\* latest_ticks in detail: `cache` is the dict, `delivered` the last tick the
\* feed delivered for each token, `quote` the token of a get_stock_data call
\* waiting for kite.quote, `read` what the last get_stock_data call read at
\* `self.latest_ticks.get(token, {})` and what the feed had delivered by then.
EmptyStore ==
    [fn |-> "latest_ticks", cache |-> [token \in Tokens |-> Absent],
     delivered |-> [token \in Tokens |-> Absent], quote |-> None,
     read |-> [token |-> None, tick |-> Absent, delivered |-> Absent]]

Store == IF calc.fn = "latest_ticks" THEN calc ELSE EmptyStore

\* ------------------------------------------------------------------ actions
Reactor == ~pending["reactor"].busy

AuthCallback ==
    /\ timers + (IF pending["timer"].busy THEN 1 ELSE 0) < MaxTimers
    /\ \E s \in set_access_token(Cur) : Commit(s)

LogoutApi == Commit(logout(Cur))

TimerFires ==
    /\ timers > 0
    /\ ~pending["timer"].busy
    /\ \E s \in update_subscriptions_thread([Cur EXCEPT !.timers = @ - 1], "timer")
         : Commit(s)

TimerApply ==
    /\ pending["timer"].busy
    /\ \E s \in resubscribe_apply(Cur, "timer") : Commit(s)

OnConnect ==
    /\ ticker /\ Reactor
    /\ conn \in {"connecting", "reconnecting"}
    /\ \E s \in resubscribe_collect(
                   [Cur EXCEPT !.is_connected = TRUE,
                               !.conn = IF @ = "reconnecting" THEN "reopened"
                                        ELSE "open"], "reactor")
         : Commit(s)

ReactorApply ==
    /\ pending["reactor"].busy
    /\ \E s \in resubscribe_apply(Cur, "reactor") : Commit(s)

OnClose ==
    /\ ticker /\ Reactor
    /\ conn \in {"connecting", "reconnecting"} \/ Open(conn)
    /\ Commit([Cur EXCEPT !.is_connected = FALSE, !.conn = "dropped"])

OnError ==
    /\ ticker /\ Reactor
    /\ conn # "none"
    /\ \E auth \in BOOLEAN :
         Commit([Cur EXCEPT !.authfail = IF auth THEN {"feed"} ELSE {}])

OnTicks ==
    /\ ticker /\ Reactor
    /\ Open(conn)
    /\ \E token \in Tokens :
         Commit([Cur EXCEPT !.latest_ticks[token] = "feed"])

LateTicks ==
    /\ late /\ Reactor
    /\ \E token \in Tokens :
         Commit([Cur EXCEPT !.latest_ticks[token] = "feed"])

LateClose ==
    /\ late /\ Reactor
    /\ Commit([Cur EXCEPT !.is_connected = FALSE, !.late = FALSE])

CreateWatchlist ==
    /\ "w1" \notin DOMAIN watchlists
    /\ Commit([Cur EXCEPT !.watchlists =
                  [w \in DOMAIN watchlists \cup {"w1"} |->
                      IF w = "w1" THEN <<>> ELSE watchlists[w]]])

DeleteWatchlist ==
    /\ "w1" \in DOMAIN watchlists
    /\ Commit([Cur EXCEPT !.watchlists =
                  [w \in DOMAIN watchlists \ {"w1"} |-> watchlists[w]]])

AfterWatchlistChange(s) ==
    IF is_authenticated(s) THEN update_subscriptions(s, "watchlist") ELSE {s}

AddSymbol ==
    \E w \in DOMAIN watchlists, e \in Entries :
        /\ e \notin Members(watchlists[w])
        /\ Len(watchlists[w]) < MaxSymbols
        /\ \E s \in AfterWatchlistChange(
                       [Cur EXCEPT !.watchlists[w] = Append(@, e)])
             : Commit(s)

RemoveSymbol ==
    \E w \in DOMAIN watchlists, e \in Entries :
        /\ e \in Members(watchlists[w])
        /\ \E s \in AfterWatchlistChange(
                       [Cur EXCEPT !.watchlists[w] =
                           SelectSeq(@, LAMBDA x : x # e)])
             : Commit(s)

GetStockDataApi ==
    /\ is_authenticated(Cur)
    /\ \E e \in Entries : \E s \in get_stock_data(Cur, e) :
         Commit(s)

\* A client opens /ws.  A websocket is a new object: it is none of those a
\* broadcast under way began with.
WsConnectOf(population) ==
    \E v \in population :
        /\ handlers[v] = "none"
        /\ v \notin bc.start
        /\ \E s \in websocket_endpoint(Cur, v) : Commit(s)

WsDisconnectOf(population) ==
    \E v \in population :
        /\ handlers[v] = "running"
        /\ Commit(disconnect(Cur, v))

WsConnect == WsConnectOf(Viewers)

WsDisconnect == WsDisconnectOf(Viewers)

HubConnect == WsConnectOf(HubViewers)

HubDisconnect == WsDisconnectOf(HubViewers)

BroadcastBegin ==
    /\ ~bc.busy
    /\ \E due \in BOOLEAN : \E s \in broadcast_updates_begin(Cur, due) :
         Commit(s)

BroadcastSend ==
    /\ bc.busy
    /\ bc.next <= Len(active_connections)
    /\ \E ok \in IF handlers[active_connections[bc.next]] = "ended"
                 THEN {FALSE} ELSE BOOLEAN :
         Commit(broadcast_send(Cur, ok))

BroadcastEnd ==
    /\ bc.busy
    /\ bc.next > Len(active_connections)
    /\ Commit(broadcast_end(Cur))

BroadcastCycle ==
    /\ ~bc.busy
    /\ \E due \in BOOLEAN : \E s \in broadcast_updates(Cur, due) :
        Commit(s)

\* A cached 52-week range turns a day old.
RangeExpires ==
    \E token \in week_52_cache :
        Commit([Cur EXCEPT !.week_52_cache = @ \ {token}])

\* ---------------------------------------------------------- specification
\* KiteManager() at import, with or without KITE_ACCESS_TOKEN in the
\* environment, and the watchlists of a first start.
Blank(token) ==
    [ watchlists |-> [w \in {"default"} |-> <<>>], kite |-> FALSE,
      access_token |-> token, ticker |-> FALSE, is_connected |-> FALSE,
      subscribed_tokens |-> {}, latest_ticks |-> NoTicks,
      instruments_cache |-> {}, week_52_cache |-> {}, conn |-> "none",
      late |-> FALSE, timers |-> 0, pending |-> [th \in Threads |-> Idle],
      active_connections |-> <<>>, handlers |-> [v \in HubViewers |-> "none"],
      first |-> [v \in HubViewers |-> "none"], bc |-> NoBroadcast,
      calls |-> <<>>, pass |-> <<>>, results |-> <<>>, authfail |-> {},
      pushed |-> FALSE ]

Init ==
    \E token \in BOOLEAN : \E s \in initialize_kite(Blank(token)) :
        /\ watchlists = s.watchlists
        /\ kite = s.kite
        /\ access_token = s.access_token
        /\ ticker = s.ticker
        /\ is_connected = s.is_connected
        /\ subscribed_tokens = s.subscribed_tokens
        /\ latest_ticks = s.latest_ticks
        /\ instruments_cache = s.instruments_cache
        /\ week_52_cache = s.week_52_cache
        /\ conn = s.conn
        /\ late = s.late
        /\ timers = s.timers
        /\ pending = s.pending
        /\ active_connections = s.active_connections
        /\ handlers = s.handlers
        /\ first = s.first
        /\ bc = s.bc
        /\ calls = s.calls
        /\ pass = s.pass
        /\ results = s.results
        /\ authfail = s.authfail
        /\ pushed = s.pushed
        /\ calc = NoCalc

Next ==
    \/ AuthCallback
    \/ LogoutApi
    \/ TimerFires
    \/ TimerApply
    \/ OnConnect
    \/ ReactorApply
    \/ OnClose
    \/ OnError
    \/ OnTicks
    \/ LateTicks
    \/ LateClose
    \/ CreateWatchlist
    \/ DeleteWatchlist
    \/ AddSymbol
    \/ RemoveSymbol
    \/ GetStockDataApi
    \/ WsConnect
    \/ WsDisconnect
    \/ HubConnect
    \/ HubDisconnect
    \/ BroadcastCycle
    \/ BroadcastBegin
    \/ BroadcastSend
    \/ BroadcastEnd
    \/ RangeExpires

\* Every handler at once.
Spec == Init /\ [][Next]_vars

\* The session and its reconciliation: the handlers that touch the ticker,
\* the credentials, the watchlists and subscribed_tokens.
NextSession ==
    \/ AuthCallback
    \/ LogoutApi
    \/ TimerFires
    \/ TimerApply
    \/ OnConnect
    \/ ReactorApply
    \/ OnClose
    \/ OnError
    \/ LateClose
    \/ CreateWatchlist
    \/ DeleteWatchlist
    \/ AddSymbol
    \/ RemoveSymbol

SpecSession == Init /\ [][NextSession]_vars

\* One read of the 52-week range of a token, whatever its cache entry, the
\* clock and the broker's answer.
ReadRange ==
    /\ \E cached \in {Absent} \cup CacheEntries, now \in Times,
          has_kite \in BOOLEAN, answer \in BrokerAnswers :
         calc' = [fn |-> "fetch_52_week_data", cached |-> cached, now |-> now,
                  has_kite |-> has_kite, answer |-> answer,
                  out |-> fetch_52_week_range(cached, now, has_kite, answer)]
    /\ UNCHANGED program

NextRange == ReadRange

SpecRange == Init /\ [][NextRange]_vars

\* One record formatted from a tick and a 52-week range.
FormatStockData ==
    /\ \E tick \in TickValues, week_52 \in Ranges \cup {NoRange} :
         calc' = [fn |-> "_format_stock_data", tick |-> tick, week_52 |-> week_52,
                  out |-> format_stock_data(tick, week_52)]
    /\ UNCHANGED program

NextFormat == FormatStockData

SpecFormat == Init /\ [][NextFormat]_vars

\* The feed delivers a batch on the ticker's thread.
DeliverTicks ==
    /\ \E ticks \in UNION { [1..n -> FeedTicks] : n \in 1..MaxBatch } :
         calc' = [Store EXCEPT !.cache = on_ticks(@, ticks),
                               !.delivered = on_ticks(@, ticks)]
    /\ UNCHANGED program

\* get_stock_data on the event loop reads the tick of a token; without a tick
\* or without a last_price in it, it goes on to ask kite.quote.
LookupReads ==
    /\ Store.quote = None
    /\ \E token \in Tokens :
         LET tick == Store.cache[token]
         IN  calc' = [Store EXCEPT
                        !.read = [token |-> token, tick |-> tick,
                                  delivered |-> Store.delivered[token]],
                        !.quote = IF tick = Absent \/ ~Truthy(tick[1].last_price)
                                  THEN token ELSE None]
    /\ UNCHANGED program

\* kite.quote returns: with a quote, which is stored as the tick, without
\* one, or with an authentication error, on which logout clears latest_ticks
\* (the session of the delivered ticks is over).
QuoteReturns ==
    /\ Store.quote # None
    /\ \E outcome \in {"quote", "none", "auth"} :
         calc' = IF outcome = "auth" THEN EmptyStore
                 ELSE [Store EXCEPT
                         !.cache[Store.quote] =
                             IF outcome = "quote" THEN Some(QuoteTick) ELSE @,
                         !.quote = None]
    /\ UNCHANGED program

NextTicks == DeliverTicks \/ LookupReads \/ QuoteReturns

SpecTicks == Init /\ [][NextTicks]_vars

\* The viewer hub with a broadcast that may suspend at each send, over the
\* one watchlist of a first start and a feed that never connects.
NextHub ==
    \/ AuthCallback
    \/ LogoutApi
    \/ AddSymbol
    \/ HubConnect
    \/ HubDisconnect
    \/ BroadcastBegin
    \/ BroadcastSend
    \/ BroadcastEnd

SpecHub == Init /\ [][NextHub]_vars

\* Viewers whose sends may stay pending for ever.
SlowViewers == {1}

\* One iteration of the broadcast loop for a viewer whose send completes:
\* one that is not slow, or one whose stream the server closed, on which
\* send_json raises at once.
BroadcastSendPrompt ==
    /\ bc.busy
    /\ bc.next <= Len(active_connections)
    /\ \/ active_connections[bc.next] \notin SlowViewers
       \/ handlers[active_connections[bc.next]] = "ended"
    /\ BroadcastSend

\* The hub when the event loop resumes the broadcast as soon as the awaited
\* send of a viewer that is not slow completes, and runs the pruning as soon
\* as the loop over the viewers is over.
SpecHubSlow ==
    SpecHub /\ WF_vars(BroadcastSendPrompt) /\ WF_vars(BroadcastEnd)

\* ------------------------------------- the receive loop of websocket_endpoint
\* timeout=30 of asyncio.wait_for(websocket.receive_text(), ...), in seconds
ReceiveTimeout == 30

\* One viewer in its receive loop, second by second: `open` says the loop is
\* still running, `waited` how long the current receive_text has waited,
\* `quiet` how long ago the last message was sent to the viewer (by the loop
\* or by a broadcast), up to the timeout, `sent` the message the last step
\* sent and `idle` the value of `quiet` when it was sent.
StartViewer ==
    [fn |-> "websocket_endpoint", open |-> TRUE, waited |-> 0, quiet |-> 0,
     sent |-> "none", idle |-> 0]

Viewer == IF calc.fn = "websocket_endpoint" THEN calc ELSE StartViewer

Sent(v, type) == [v EXCEPT !.sent = type, !.idle = v.quiet, !.quiet = 0]

\* A second passes without a message from the client.
SecondPasses ==
    /\ Viewer.open
    /\ Viewer.waited < ReceiveTimeout
    /\ calc' = [Viewer EXCEPT !.waited = @ + 1,
                              !.quiet = IF @ < ReceiveTimeout THEN @ + 1 ELSE @,
                              !.sent = "none"]
    /\ UNCHANGED program

\* `except asyncio.TimeoutError:` sends the heartbeat and the loop waits again.
ReceiveTimesOut ==
    /\ Viewer.open
    /\ Viewer.waited = ReceiveTimeout
    /\ calc' = [Sent(Viewer, "heartbeat") EXCEPT !.waited = 0]
    /\ UNCHANGED program

\* receive_text returns a message, which is a ping, another JSON message or
\* text that is not JSON: a ping is answered, text that is not JSON ends the
\* handler, and otherwise the loop waits again.
ClientSends ==
    /\ Viewer.open
    /\ \E message \in {"ping", "subscribe", "malformed"} :
         calc' = CASE message = "ping" ->
                        [Sent(Viewer, "pong") EXCEPT !.waited = 0]
                   [] message = "malformed" ->
                        [Viewer EXCEPT !.open = FALSE, !.sent = "none"]
                   [] OTHER ->
                        [Viewer EXCEPT !.waited = 0, !.sent = "none"]
    /\ UNCHANGED program

\* manager.broadcast sends the viewer a tick_update.
BatchIsSent ==
    /\ Viewer.open
    /\ calc' = Sent(Viewer, "tick_update")
    /\ UNCHANGED program

NextKeepAlive == SecondPasses \/ ReceiveTimesOut \/ ClientSends \/ BatchIsSent

SpecKeepAlive == Init /\ [][NextKeepAlive]_vars

\* A cycle of broadcast_updates more than 10 s after the last subscription
\* check
BroadcastCycleDue ==
    /\ ~bc.busy
    /\ \E s \in broadcast_updates(Cur, TRUE) : Commit(s)

\* The session and its feed, the viewers and the broadcast loop, over the
\* one watchlist of a first start.
NextWatch ==
    \/ AuthCallback
    \/ TimerFires
    \/ TimerApply
    \/ OnConnect
    \/ ReactorApply
    \/ OnClose
    \/ AddSymbol
    \/ WsConnect
    \/ WsDisconnect
    \/ BroadcastCycle

\* The same when the loop keeps cycling, with its subscription check coming
\* due again and again even if viewers come and go in between, every timer
\* fires, and a pass a thread began is finished.
SpecWatch ==
    /\ Init /\ [][NextWatch]_vars
    /\ WF_vars(BroadcastCycle) /\ SF_vars(BroadcastCycleDue)
    /\ WF_vars(TimerFires) /\ WF_vars(TimerApply) /\ WF_vars(ReactorApply)

\* --------------------------------------- broadcast_updates, lookup by lookup
\* The task of broadcast_updates: `pc` is "sleep" (in asyncio.sleep or about
\* to start), "lookup" (in the loop over all_symbols) or "done" (the coroutine
\* is over); `all_symbols` and `updates` are the locals of those names,
\* `todo` the symbols the loop has still to visit, `looked` what each
\* get_stock_data call of the cycle returned, `last` how the last cycle ended
\* ("quiet": without a message), `batch` the data of the message the cycle
\* gave to manager.broadcast.
StartLoop ==
    [fn |-> "broadcast_updates", pc |-> "sleep", all_symbols |-> {},
     todo |-> {}, updates |-> <<>>, looked |-> <<>>, last |-> "none",
     batch |-> <<>>, cancelled |-> FALSE]

Loop == IF calc.fn = "broadcast_updates" THEN calc ELSE StartLoop

\* A lookup raised: is_authenticated lookups raise ValueError, and the calls
\* of the broker whatever they raise.
Raised(r) == r.ret \in {"error", "Not authenticated"}

\* A loop that gives the cycle up at the first lookup that raises.
AfterLookupAborting(loop, e, r) ==
    [loop EXCEPT !.todo = IF Raised(r) THEN {} ELSE @ \ {e},
                 !.looked = Append(@, r),
                 !.updates = IF r.ret = "record" THEN Append(@, r) ELSE @]

\* One iteration of `for exchange, symbol in all_symbols`
AfterLookup(loop, e, r) ==
    [loop EXCEPT !.todo = @ \ {e},
                 !.looked = Append(@, r),
                 !.updates = IF r.ret = "record" THEN Append(@, r) ELSE @]

\* A loop that an error ends.
AfterErrorEnds(loop) ==
    [StartLoop EXCEPT !.pc = "done", !.last = "raised"]

\* `except Exception as e:` and its sleep
AfterError(loop) ==
    [StartLoop EXCEPT !.pc = "sleep", !.last = "raised"]

\* The cycle from the top of the loop to its first lookup; `error` says
\* something unexpected is raised on the way.
LoopCycle ==
    /\ Loop.pc = "sleep"
    /\ IF ~CycleRuns(Cur)
       THEN Install(Cur) /\ calc' = [StartLoop EXCEPT !.last = "quiet"]
       ELSE \E due \in BOOLEAN :
              \E u \in IF due THEN update_subscriptions(Cur, "periodic") ELSE {Cur} :
                /\ Install(u)
                /\ \E error \in BOOLEAN :
                     LET all == Members(AllItems(u.watchlists))
                     IN  calc' = IF error THEN AfterError(Loop)
                                 ELSE IF all = {}
                                 THEN [StartLoop EXCEPT !.last = "quiet"]
                                 ELSE [StartLoop EXCEPT !.pc = "lookup",
                                                        !.all_symbols = all,
                                                        !.todo = all,
                                                        !.last = Loop.last]

LoopLookupOf(e) ==
    /\ Loop.pc = "lookup"
    /\ e \in Loop.todo
    /\ \E s \in get_stock_data(Cur, e) :
         /\ Install(s)
         /\ calc' = AfterLookup(Loop, e, s.results[1])

\* `if updates: await manager.broadcast(...)` and the sleep
LoopBroadcast ==
    /\ Loop.pc = "lookup"
    /\ Loop.todo = {}
    /\ IF Loop.updates = <<>>
       THEN Install(Cur) /\ calc' = [Loop EXCEPT !.pc = "sleep", !.last = "quiet"]
       ELSE \E s \in broadcast([Cur EXCEPT !.pushed = TRUE]) :
              /\ Install(s)
              /\ \E error \in BOOLEAN :
                   calc' = IF error THEN AfterError(Loop)
                           ELSE [Loop EXCEPT !.pc = "sleep", !.last = "pushed",
                                             !.batch = Loop.updates,
                                             !.updates = <<>>]

\* task.cancel() at shutdown reaches the task in its sleep.
LoopCancel ==
    /\ Loop.pc = "sleep"
    /\ Install(Cur)
    /\ calc' = [StartLoop EXCEPT !.pc = "done", !.cancelled = TRUE]

\* The lookups of a cycle do not await: no other handler of the event loop
\* runs during them; and none runs once the service has shut down.
EventLoopHandlers ==
    /\ Loop.pc = "sleep"
    /\ \/ AuthCallback
       \/ LogoutApi
       \/ CreateWatchlist
       \/ AddSymbol
       \/ WsConnect

NextLoop ==
    \/ EventLoopHandlers
    \/ LoopCycle
    \/ \E e \in Entries : LoopLookupOf(e)
    \/ LoopBroadcast
    \/ LoopCancel

SpecLoop == Init /\ [][NextLoop]_vars

\* Instruments for which a call of the broker may stay without an answer.
SlowEntries == {<<"NSE", "FOO">>}

\* get_stock_data of this entry gets as far as kite.historical_data or
\* kite.quote: the session has a client, the entry has a token, and its range
\* is not cached or it has no tick.
NeedsBroker(s, e) ==
    /\ s.kite
    /\ Directory(e) # None
    /\ \/ Directory(e) \notin s.week_52_cache
       \/ s.latest_ticks[Directory(e)] = "none"

\* A lookup that does not wait for a slow instrument's call
LoopLookupPrompt ==
    \E e \in Entries :
        /\ e \notin SlowEntries \/ ~NeedsBroker(Cur, e)
        /\ LoopLookupOf(e)

\* The loop when every step of a cycle is taken as soon as it can be, apart
\* from the lookups that wait for a slow instrument's call.
SpecLoopSlow ==
    SpecLoop /\ WF_vars(LoopLookupPrompt) /\ WF_vars(LoopBroadcast)

\* The lookups, the viewers and the broadcast cycle, over the one watchlist
\* of a first start and a ticker that does not drop.
NextBroadcast ==
    \/ AuthCallback
    \/ LogoutApi
    \/ OnConnect
    \/ ReactorApply
    \/ OnError
    \/ OnTicks
    \/ LateTicks
    \/ LateClose
    \/ AddSymbol
    \/ RemoveSymbol
    \/ GetStockDataApi
    \/ WsConnect
    \/ WsDisconnect
    \/ BroadcastCycle
    \/ RangeExpires

SpecBroadcast == Init /\ [][NextBroadcast]_vars

\* ------------------------------------------------------------- properties
RanPass == pass # <<>>

LastPass == pass[1]

AllSucceeded(p) == p.unsubOk /\ p.subOk

\* The tokens of the (exchange, symbol) pairs some watchlist holds.
Referenced == {Directory(e) : e \in Members(AllItems(watchlists))} \ {None}

Issued(kind) == {i \in 1..Len(calls) : calls[i].call = kind}

IdsOf(kind) == UNION {calls[i].ids : i \in Issued(kind)}

Authenticated == kite /\ access_token

\* C1: a pass that follows, with the same desired set, a pass whose calls all
\* succeeded computes an empty to_add and an empty to_remove and issues no
\* subscribe or unsubscribe call.
C1_ReconcileIdempotent ==
    [][ (RanPass /\ AllSucceeded(LastPass) /\ pass' # <<>>
            /\ pass'[1].desired = LastPass.desired)
        => (pass'[1].unsub = {} /\ pass'[1].sub = {}
            /\ calls' = <<>>) ]_vars

\* C2: after a pass whose calls all succeeded and whose desired set is the
\* tokens of all watchlist entries, subscribed_tokens is that desired set.
C2_SubscribedEqualsDesired ==
    (RanPass /\ AllSucceeded(LastPass) /\ LastPass.desired = Referenced)
        => subscribed_tokens = LastPass.desired

\* C3: the pass that follows a symbol add or remove unsubscribes exactly
\* current - desired and subscribes exactly desired - current, whatever the
\* desired set, the empty one included.
C3_ExactDeltas ==
    (RanPass /\ LastPass.trigger = "watchlist")
        => /\ LastPass.unsub = LastPass.before \ LastPass.desired
           /\ LastPass.sub = LastPass.desired \ LastPass.before

\* C4: a pass neither unsubscribes nor drops from subscribed_tokens a token
\* that some watchlist still references.
C4_ReferencedKept ==
    RanPass => /\ LastPass.unsub \cap Referenced = {}
               /\ (LastPass.before \cap Referenced) \subseteq subscribed_tokens

\* C5: a call that fails leaves subscribed_tokens as it was for the tokens of
\* that call, raises nothing to the caller, and the pass that follows with the
\* same desired set makes the same call again.
C5_FailedCallRetried ==
    [][ /\ (pass' # <<>> /\ ~pass'[1].subOk)
            => (pass'[1].sub \cap subscribed_tokens' = {} /\ ~pass'[1].raised)
        /\ (pass' # <<>> /\ ~pass'[1].unsubOk)
            => (pass'[1].unsub \subseteq subscribed_tokens' /\ ~pass'[1].raised)
        /\ (RanPass /\ pass' # <<>> /\ pass'[1].desired = LastPass.desired)
            => /\ ~LastPass.subOk
                    => /\ pass'[1].sub = LastPass.sub
                       /\ ticker => \E i \in 1..Len(calls') :
                                        calls'[i] = [call |-> "subscribe",
                                                     ids |-> LastPass.sub]
               /\ ~LastPass.unsubOk
                    => /\ pass'[1].unsub = LastPass.unsub
                       /\ ticker => \E i \in 1..Len(calls') :
                                        calls'[i] = [call |-> "unsubscribe",
                                                     ids |-> LastPass.unsub] ]_vars

C5_Witness ==
    /\ RanPass
    /\ ~LastPass.subOk
    /\ LastPass.sub # {}
    /\ LastPass.before # {}
    /\ Issued("subscribe") # {}

\* C6: the pass run by on_connect on a connection opened again after a drop
\* subscribes every token that was in subscribed_tokens when it opened and is
\* still the token of a watchlist entry.
C6_ResubscribedOnReconnect ==
    (RanPass /\ LastPass.trigger = "reactor" /\ conn = "reopened"
             /\ LastPass.at_start \subseteq LastPass.desired)
        => LastPass.at_start \subseteq IdsOf("subscribe")

\* C7: a lookup that meets the invalid-credential error in its historical
\* range or quote call ends with the ticker closed, latest_ticks and
\* subscribed_tokens empty, the session not authenticated, and raises
\* "Not authenticated" instead of returning a record.
C7_AuthFailureClearsSession ==
    [][ \A i \in 1..Len(results') :
          results'[i].detected \in {"historical", "quote"}
          => /\ results'[i].ret = "Not authenticated"
             /\ ticker => Len(calls') > 0 /\ calls'[Len(calls')].call = "close"
             /\ ~ticker' /\ conn' = "none"
             /\ latest_ticks' = NoTicks
             /\ subscribed_tokens' = {}
             /\ ~(kite' /\ access_token') ]_vars

C7_Witness ==
    /\ \E i \in 1..Len(results) : results[i].detected \in {"historical", "quote"}
    /\ Issued("close") # {}
    /\ Issued("subscribe") # {}

\* C8: whichever broker call reports invalid credentials (the feed's error
\* callback, the instrument directory load, the historical range, the quote),
\* the session is not authenticated afterwards.
C8_EveryAuthFailureLogsOut ==
    authfail # {} => ~Authenticated

\* C9: no handler calls ticker.connect while the session is not authenticated.
C9_NoConnectWhileUnauthenticated ==
    Issued("connect") # {} => Authenticated

\* C10: a tick_update batch is pushed only by a cycle that starts with a
\* viewer registered and the session authenticated.
C10_BatchOnlyWhenViewerAndAuth ==
    [][ pushed' => (active_connections # <<>> /\ kite /\ access_token) ]_vars

C10_Witness ==
    /\ pushed
    /\ \E i \in 1..Len(results) : results[i].ret = "record"

\* C12: a viewer whose connection handler has ended is not in the active set.
C12_EndedViewerNotActive ==
    \A v \in HubViewers :
        handlers[v] = "ended" => v \notin Members(active_connections)

\* The broadcast under way has left its loop and is about to prune.
LoopDone == bc.busy /\ bc.next > Len(active_connections)

Failed == Members(bc.disconnected)

\* C11: a broadcast during which no other handler touched the active set and
\* whose sends failed for the viewers F ends with the active set it began
\* with minus F, and has sent once to each viewer outside F.
C11_BroadcastPrunesFailed ==
    [][ (bc.busy /\ ~bc'.busy /\ bc.joined = {} /\ bc.left = {})
            => /\ Members(active_connections') = bc.start \ Failed
               /\ Members(bc.sent) = bc.start \ Failed
               /\ Len(bc.sent) = Cardinality(Members(bc.sent))
               /\ Len(active_connections') = Cardinality(bc.start \ Failed) ]_vars

C11_Witness ==
    /\ LoopDone
    /\ bc.joined = {} /\ bc.left = {}
    /\ Cardinality(bc.start) = 2
    /\ Len(bc.disconnected) = 1
    /\ Len(bc.sent) = 1

\* C13: a viewer registered when a broadcast starts and not unregistered
\* while it runs has had the message sent to it when the loop is over.
C13_RegisteredViewerIsSent ==
    LoopDone => (bc.start \ bc.left) \subseteq (Members(bc.sent) \cup Failed)

\* C14: no viewer has a tick_update as its first message; a viewer in its
\* receive loop that the broadcast under way has sent to had its initial_data
\* first.
C14_InitialBeforeUpdates ==
    \A v \in HubViewers :
        /\ first[v] # "tick_update"
        /\ (v \in Members(bc.sent) /\ handlers[v] = "running")
              => first[v] = "initial_data"

C14_Witness ==
    \E v \in HubViewers :
        /\ v \in bc.joined
        /\ v \in Members(bc.sent)
        /\ first[v] = "initial_data"

\* C15: a read before fetched_at + 24 h returns the cached range as it is
\* and asks the broker nothing; a read at fetched_at + 24 h or later asks the
\* broker, and the range it returns, if any, is the broker's.
C15_RangeFreshForADay ==
    (calc.fn = "fetch_52_week_data" /\ calc.cached # Absent)
        => LET e == calc.cached[1]
           IN  /\ calc.now < e.fetched_at + Day
                    => /\ calc.out.range = [high |-> Some(e.high), low |-> Some(e.low)]
                       /\ ~calc.out.called
               /\ calc.now >= e.fetched_at + Day
                    => /\ calc.has_kite => calc.out.called
                       /\ calc.out.range # NoRange
                            => /\ calc.out.called
                               /\ calc.out.range = calc.answer.range

C15_Witness ==
    /\ calc.fn = "fetch_52_week_data"
    /\ calc.cached # Absent
    /\ calc.now = calc.cached[1].fetched_at + Day
    /\ calc.out.called
    /\ calc.out.range # NoRange
    /\ calc.out.range.high # Some(calc.cached[1].high)

Formatted == calc.fn = "_format_stock_data"

\* The tick and the range of the NSE:FOO scenario
FooTick ==
    [last_price |-> Some(100), high |-> Some(110), low |-> Some(95),
     buyers |-> Some(500), sellers |-> Some(250)]

FooRange == [high |-> Some(150), low |-> Some(80)]

FooCase == Formatted /\ calc.tick = FooTick /\ calc.week_52 = FooRange

\* C16: the record of the NSE:FOO scenario is cmp=100, dfl=20.0, dfh=33.33,
\* dfdh=10.0, dfdl=5.26, bsr=2.0.
C16_FooRecord ==
    FooCase => /\ calc.out.cmp = Some(100)
               /\ calc.out.dfl = Some(2000)
               /\ calc.out.dfh = Some(3333)
               /\ calc.out.dfdh = Some(1000)
               /\ calc.out.dfdl = Some(526)
               /\ calc.out.bsr = Some(200)

\* C16 as the formulas give it: the same record with dfh=50.0.
C16_FooRecordAmended ==
    FooCase => /\ calc.out.cmp = Some(100)
               /\ calc.out.dfl = Some(2000)
               /\ calc.out.dfh = Some(5000)
               /\ calc.out.dfdh = Some(1000)
               /\ calc.out.dfdl = Some(526)
               /\ calc.out.bsr = Some(200)

C16_Witness == FooCase /\ calc.out.dfh = Some(5000)

\* A record made from a price above 0 and a range with both bounds
Bounded ==
    /\ Formatted
    /\ calc.tick.last_price # Absent
    /\ calc.tick.last_price[1] > 0
    /\ calc.week_52 # NoRange

\* C17: for a price above 0 and a range with both bounds, the emitted dfl is
\* >= 0 exactly when cmp >= low, and the emitted dfh is >= 0 exactly when
\* high >= cmp.
C17_SignOfDistances ==
    Bounded => /\ calc.out.dfl[1] >= 0 <=> calc.tick.last_price[1] >= calc.week_52.low[1]
               /\ calc.out.dfh[1] >= 0 <=> calc.week_52.high[1] >= calc.tick.last_price[1]

\* C17 as rounding allows it: the emitted dfl is never below 0 when
\* cmp >= low and never above 0 when cmp <= low; likewise dfh and high.
C17_SignOfDistancesAmended ==
    Bounded => LET cmp == calc.tick.last_price[1]
               IN  /\ cmp >= calc.week_52.low[1] => calc.out.dfl[1] >= 0
                   /\ cmp <= calc.week_52.low[1] => calc.out.dfl[1] <= 0
                   /\ calc.week_52.high[1] >= cmp => calc.out.dfh[1] >= 0
                   /\ calc.week_52.high[1] <= cmp => calc.out.dfh[1] <= 0

C17_Witness ==
    /\ Bounded
    /\ calc.tick.last_price[1] < calc.week_52.low[1]
    /\ calc.out.dfl = Some(0)

\* C18: dfdl is (cmp - day_low) / day_low * 100 rounded to 2 decimals when
\* day_low > 0 and cmp is present, a cmp of 0 included, and None otherwise.
C18_DfdlDefined ==
    Formatted
        => IF /\ calc.tick.low # Absent
              /\ calc.tick.low[1] > 0
              /\ calc.tick.last_price # Absent
           THEN calc.out.dfdl = Some(Percent(calc.tick.last_price[1] - calc.tick.low[1],
                                             calc.tick.low[1]))
           ELSE calc.out.dfdl = Absent

\* A lookup that resolved its instrument, found no tick and got no quote
Tickless(r) == r.ret = "record" /\ r.tick = "none"

\* C19: whatever cycle runs next, a lookup of it that resolves its
\* instrument and finds neither a tick nor a quote puts a record in the batch
\* that is pushed, and that record has no cmp and none of dfl, dfh, dfdl,
\* dfdh, bsr.
C19_TicklessRecordInBatch ==
    \A due \in BOOLEAN : \A r \in broadcast_updates(Cur, due) :
        \A i \in 1..Len(r.results) :
            Tickless(r.results[i])
                => /\ r.pushed
                   /\ r.results[i] \in Members(Records(r))
                   /\ \A w \in Ranges \cup {NoRange} :
                        LET rec == format_stock_data(EmptyTick, w)
                        IN  /\ rec.cmp = Absent
                            /\ rec.dfl = Absent /\ rec.dfh = Absent
                            /\ rec.dfdl = Absent /\ rec.dfdh = Absent
                            /\ rec.bsr = Absent

C19_Witness ==
    /\ pushed
    /\ \E i \in 1..Len(results) : Tickless(results[i])
    /\ \E t \in Tokens : t \in subscribed_tokens /\ latest_ticks[t] = "none"

\* C20: once the feed has delivered a tick for a token, a read of that
\* token's tick returns the last tick delivered for it.
C20_ReadReturnsLastDelivered ==
    (calc.fn = "latest_ticks" /\ calc.read.delivered # Absent)
        => calc.read.tick = calc.read.delivered

\* C21: while the send of a broadcast to a slow viewer is pending, every
\* other viewer the broadcast began with is still served: it is sent the
\* batch, or its send fails, or it unregisters, or the broadcast returns.
C21_SlowSendDoesNotStall ==
    \A v \in HubViewers \ SlowViewers :
        (bc.busy /\ v \in bc.start)
            ~> \/ ~bc.busy
               \/ v \in Members(bc.sent) \cup Members(bc.disconnected)
               \/ v \notin Members(active_connections)

\* C22: a cycle that has begun its lookups gets through them, even when
\* the broker leaves a call for one instrument without an answer.
C22_CycleCompletes ==
    (Loop.pc = "lookup") ~> (Loop.pc # "lookup")

\* C23: once the feed's socket has dropped under valid credentials, a
\* connect is issued on the ticker (or the session has ended meanwhile).
C23_DropIsFollowedByConnect ==
    (Authenticated /\ ticker /\ conn = "dropped")
        ~> (~Authenticated \/ ~ticker \/ Issued("connect") # {})

\* C24: while the session is authenticated and its feed connected, the
\* loop's reconcile pass keeps coming round, viewers or not.
C24_PeriodicPassKeepsRunning ==
    (Authenticated /\ ticker /\ is_connected)
        ~> \/ ~(Authenticated /\ ticker /\ is_connected)
           \/ RanPass /\ LastPass.trigger = "periodic"

\* A cycle went through its lookups and is back in its sleep.
CycleDone == Loop.pc = "sleep" /\ Loop.all_symbols # {}

\* C25: a cycle looks every (exchange, symbol) of the watchlists up once,
\* whatever the other lookups raised; it pushes a batch when a lookup gave a
\* record, and the batch holds one record for each symbol that resolves and
\* whose lookup did not raise, and none twice.
C25_FailedLookupKeepsBatch ==
    LET LookedUp(e) == {i \in 1..Len(Loop.looked) : Loop.looked[i].entry = e}
        InBatch(e) == {i \in 1..Len(Loop.batch) : Loop.batch[i].entry = e}
    IN
    /\ Loop.pc = "lookup" => Loop.all_symbols = Members(AllItems(watchlists))
    /\ CycleDone =>
         /\ \A e \in Loop.all_symbols : Cardinality(LookedUp(e)) = 1
         /\ Loop.last = "pushed"
              <=> \E i \in 1..Len(Loop.looked) : Loop.looked[i].ret = "record"
         /\ \A e \in Loop.all_symbols : \A i \in LookedUp(e) :
              /\ Cardinality(InBatch(e)) =
                     IF Loop.looked[i].ret = "record" THEN 1 ELSE 0
              /\ (Directory(e) # None /\ ~Raised(Loop.looked[i]))
                     => Loop.looked[i].ret = "record"

C25_Witness ==
    /\ CycleDone
    /\ Loop.last = "pushed"
    /\ \E i \in 1..Len(Loop.looked) : Raised(Loop.looked[i])
    /\ \E i \in 1..Len(Loop.looked) : Loop.batch = <<Loop.looked[i]>>

\* C26: the broadcast_updates task is over only when it was cancelled: a
\* cycle that raised leaves the loop in its sleep, from where the next cycle
\* starts.
C26_LoopSurvivesErrors == Loop.pc = "done" => Loop.cancelled

\* A cycle is at its lookups after a cycle that raised.
C26_Witness == Loop.last = "raised" /\ Loop.pc = "lookup" /\ Loop.looked # <<>>

\* C27: a heartbeat is sent to a viewer only when no message was sent to it
\* for the whole idle window.
C27_HeartbeatOnlyWhenQuiet ==
    Viewer.sent = "heartbeat" => Viewer.idle >= ReceiveTimeout

\* C28: whenever the session is not authenticated, latest_ticks and
\* subscribed_tokens are empty and the ticker's socket is not open.
C28_UnauthenticatedIsEmpty ==
    ~Authenticated =>
        /\ latest_ticks = NoTicks
        /\ subscribed_tokens = {}
        /\ ~Open(conn)

\* C29: the tick a quote seeded never stands in latest_ticks for a token
\* the feed has delivered a tick for (here: a tick with a price, for which
\* no lookup that reads it asks for a quote).
C29_QuoteNeverReplacesFeedTick ==
    \A token \in Tokens :
        (/\ Store.delivered[token] # Absent
         /\ Truthy(Store.delivered[token][1].last_price))
            => Store.cache[token] # Some(QuoteTick)
====
